---- MODULE Spec2Model ----
(***************************************************************************)
(* A model of the adaptive search scheduler of Instrgam_Searcher:          *)
(*   - AdaptiveRateLimiter (src/lib/searcher.js), the pacing state that    *)
(*     every outbound request passes through;                              *)
(*   - filterProfile / extractTrainerInfo (src/lib/utils.js);              *)
(*   - the priority-tiered PTFinder (src/unnamed/part_002) driving the     *)
(*     adaptive InstagramAPI (src/lib/searcher.js).                        *)
(*                                                                         *)
(* Specifications:                                                         *)
(*   SpecLimiter  a limiter built from any option object, then any         *)
(*                sequence of afterResponse calls;                         *)
(*   SpecPriority baseForPriority asked of a limiter built from any option *)
(*                object;                                                  *)
(*   SpecPacing   the limiter as InstagramAPI builds it, with beforeRequest*)
(*                and afterResponse under sequential use and a clock;      *)
(*   SpecFilter   filterProfile applied to bounded inputs;                 *)
(*   SpecRun      one runAllPhases of PTFinder against nondeterministic    *)
(*                search and profile collaborators;                        *)
(*   SpecAuth     one runAuthTest on a new PTFinder;                       *)
(*   SpecApi      searchProfiles and getProfile calls on one InstagramAPI, *)
(*                each passing beforeRequest and reporting its response;   *)
(*   SpecDense    back-to-back request cycles on InstagramAPI's limiter;   *)
(*   SpecReplay   the loop of searchAndProcess run twice over one list of  *)
(*                hits, getProfile answering alike both times;             *)
(*   SpecResults  deduplicateTrainers applied to bounded lists.            *)
(***************************************************************************)
EXTENDS Integers, Sequences, FiniteSets, TLC

(***************************************************************************)
(* Bounds of the model.                                                    *)
(***************************************************************************)
\* Calls made on one limiter (afterResponse and beforeRequest together).
MaxCalls == 4

(***************************************************************************)
(* Milliseconds.  The limiter multiplies delays by 1.5, so its values are  *)
(* dyadic fractions of a millisecond; after n such multiplications the     *)
(* denominator is at most 2^n.  Every time and delay is held as an integer *)
(* number of 1/Scale ms, which is exact for up to MaxCalls multiplications.*)
(***************************************************************************)
Scale == 2 ^ MaxCalls

Ms(x) == x * Scale

Min(a, b) == IF a <= b THEN a ELSE b

Max(a, b) == IF a >= b THEN a ELSE b

\* x * 1.5
OneAndHalf(x) == (3 * x) \div 2

(***************************************************************************)
(* State.                                                                  *)
(***************************************************************************)
VARIABLES
    rateLimiter,   \* the AdaptiveRateLimiter object: a record of its fields
    clock,         \* the value Date.now() returns
    calls,         \* calls made on the limiter so far
    br,            \* the activation of beforeRequest: its position and locals
    lastResponse,  \* the argument of the latest afterResponse call, and its ordinal
    bases,         \* what baseForPriority returned for 'high', 'medium' and 'low'
    filterInput,   \* the arguments of one filterProfile call
    filterVerdict, \* what that call returned (NoVerdict before it returns)
    files,         \* what loadJSON returns for the names and the keywords file
    finder,        \* the PTFinder object: a record of its fields
    run,           \* the activation of runAllPhases: its position and locals
    api,           \* the InstagramAPI call in progress or last made
    fetchCount,    \* getProfile calls made so far, by case-folded username
    sent,          \* the searchAndProcess calls so far: query, priority, label
    phaseLog,      \* the requests and pauses so far, phase by phase
    replay,        \* one list of hits processed twice against fixed answers
    results        \* getResults: the list given to deduplicateTrainers, its output

limiterVars == <<rateLimiter, clock, calls, br, lastResponse, bases>>

filterVars == <<filterInput, filterVerdict>>

runVars == <<files, finder, run, api, fetchCount, sent, phaseLog>>

dedupVars == <<replay, results>>

\* Program constants of AdaptiveRateLimiter.
DefaultBaseDelayMs == 1500
DefaultMinDelayMs == 800
DefaultMaxDelayMs == 8000
DefaultMaxRequestsPerMinute == 90
InitialBackoffMs == 60000
WindowMs == 60000
PriorityOffsetMs == 300
RateLimitedStatus == 429
SlowResponseMs == 2000
FastResponseMs == 800
EmptyStreakThreshold == 3
BackoffCapFactor == 4

\* a || b on numbers: 0 (and an absent option, held as 0) is falsy.
OrDefault(a, b) == IF a = 0 THEN b ELSE a

\* new AdaptiveRateLimiter(options); options are in ms, 0 for an absent one.
NewLimiter(options) ==
    [ baseDelayMs          |-> Ms(OrDefault(options.baseDelayMs, DefaultBaseDelayMs)),
      minDelayMs           |-> Ms(OrDefault(options.minDelayMs, DefaultMinDelayMs)),
      maxDelayMs           |-> Ms(OrDefault(options.maxDelayMs, DefaultMaxDelayMs)),
      maxRequestsPerMinute |-> OrDefault(options.maxRequestsPerMinute, DefaultMaxRequestsPerMinute),
      dynamicDelayMs       |-> Ms(OrDefault(options.baseDelayMs, DefaultBaseDelayMs)),
      emptyStreak          |-> 0,
      cooldownUntil        |-> 0,
      backoffMs            |-> Ms(InitialBackoffMs),
      requestTimestamps    |-> <<>>,
      lastRequestTime      |-> 0 ]

\* baseForPriority(priority)
BaseForPriority(rl, priority) ==
    IF priority = "high" THEN Max(rl.baseDelayMs - Ms(PriorityOffsetMs), rl.minDelayMs)
    ELSE IF priority = "low" THEN rl.baseDelayMs + Ms(PriorityOffsetMs)
    ELSE rl.baseDelayMs

\* requestTimestamps.filter(ts => now - ts < 60000)
RECURSIVE PruneWindow(_, _)
PruneWindow(ts, now) ==
    IF ts = <<>> THEN <<>>
    ELSE IF now - Head(ts) < Ms(WindowMs)
         THEN <<Head(ts)>> \o PruneWindow(Tail(ts), now)
         ELSE PruneWindow(Tail(ts), now)

\* The status === 429 branch of afterResponse.
OnRateLimitedMutantStreak(rl, now) ==
    [ rl EXCEPT !.cooldownUntil  = now + rl.backoffMs,
                !.dynamicDelayMs = Min(OneAndHalf(rl.dynamicDelayMs) + Ms(200), rl.maxDelayMs),
                !.backoffMs      = Min(OneAndHalf(rl.backoffMs), rl.maxDelayMs * BackoffCapFactor),
                !.emptyStreak    = 0 ]

OnRateLimited(rl, now) ==
    [ rl EXCEPT !.cooldownUntil  = now + rl.backoffMs,
                !.dynamicDelayMs = Min(OneAndHalf(rl.dynamicDelayMs) + Ms(200), rl.maxDelayMs),
                !.backoffMs      = Min(OneAndHalf(rl.backoffMs), rl.maxDelayMs * BackoffCapFactor) ]

\* The density check of afterResponse.
AfterDensity(rl) ==
    IF Len(rl.requestTimestamps) > rl.maxRequestsPerMinute
    THEN [rl EXCEPT !.dynamicDelayMs = Min(rl.dynamicDelayMs + Ms(400), rl.maxDelayMs)]
    ELSE rl

\* The response-time check of afterResponse.
AfterLatencyMutantNoCap(rl, responseTimeMs) ==
    IF responseTimeMs > SlowResponseMs
    THEN [rl EXCEPT !.dynamicDelayMs = rl.dynamicDelayMs + Ms(200)]
    ELSE IF responseTimeMs < FastResponseMs
         THEN [rl EXCEPT !.dynamicDelayMs = Max(rl.dynamicDelayMs - Ms(100), rl.minDelayMs)]
         ELSE rl

AfterLatency(rl, responseTimeMs) ==
    IF responseTimeMs > SlowResponseMs
    THEN [rl EXCEPT !.dynamicDelayMs = Min(rl.dynamicDelayMs + Ms(200), rl.maxDelayMs)]
    ELSE IF responseTimeMs < FastResponseMs
         THEN [rl EXCEPT !.dynamicDelayMs = Max(rl.dynamicDelayMs - Ms(100), rl.minDelayMs)]
         ELSE rl

\* The resultsCount check of afterResponse.
AfterResultsMutantResetBackoff(rl, resultsCount) ==
    IF resultsCount = 0
    THEN LET streak == rl.emptyStreak + 1 IN
         [rl EXCEPT !.emptyStreak = streak,
                    !.dynamicDelayMs =
                        IF streak >= EmptyStreakThreshold
                        THEN Max(rl.dynamicDelayMs - Ms(150), rl.minDelayMs)
                        ELSE rl.dynamicDelayMs]
    ELSE [rl EXCEPT !.emptyStreak = 0,
                    !.backoffMs = Ms(InitialBackoffMs),
                    !.dynamicDelayMs = Max(rl.dynamicDelayMs - Ms(50), rl.minDelayMs)]

AfterResultsMutantEarly(rl, resultsCount) ==
    IF resultsCount = 0
    THEN LET streak == rl.emptyStreak + 1 IN
         [rl EXCEPT !.emptyStreak = streak,
                    !.dynamicDelayMs =
                        IF streak >= EmptyStreakThreshold - 1
                        THEN Max(rl.dynamicDelayMs - Ms(150), rl.minDelayMs)
                        ELSE rl.dynamicDelayMs]
    ELSE [rl EXCEPT !.emptyStreak = 0,
                    !.dynamicDelayMs = Max(rl.dynamicDelayMs - Ms(50), rl.minDelayMs)]

AfterResults(rl, resultsCount) ==
    IF resultsCount = 0
    THEN LET streak == rl.emptyStreak + 1 IN
         [rl EXCEPT !.emptyStreak = streak,
                    !.dynamicDelayMs =
                        IF streak >= EmptyStreakThreshold
                        THEN Max(rl.dynamicDelayMs - Ms(150), rl.minDelayMs)
                        ELSE rl.dynamicDelayMs]
    ELSE [rl EXCEPT !.emptyStreak = 0,
                    !.dynamicDelayMs = Max(rl.dynamicDelayMs - Ms(50), rl.minDelayMs)]

\* afterResponse({ status, resultsCount, responseTimeMs }) called at time now.
AfterResponseResult(rl, now, status, resultsCount, responseTimeMs) ==
    LET pushed == [rl EXCEPT !.requestTimestamps =
                                 PruneWindow(Append(rl.requestTimestamps, now), now)]
    IN  IF status = RateLimitedStatus
        THEN OnRateLimited(pushed, now)
        ELSE AfterResults(AfterLatency(AfterDensity(pushed), responseTimeMs), resultsCount)

\* The wait of the cooldown branch of beforeRequest entered at time now.
CooldownWaitMutantNone(rl, now) == 0

CooldownWait(rl, now) ==
    IF rl.cooldownUntil # 0 /\ now < rl.cooldownUntil
    THEN rl.cooldownUntil - now
    ELSE 0

\* waitMs of beforeRequest: the spacing wait, from the time read on entry.
SpacingWaitMutantNone(rl, now, priority) == 0

SpacingWaitMutantReread(rl, now, priority) ==
    LET spacingTarget == Max(rl.dynamicDelayMs, BaseForPriority(rl, priority))
        sinceLast     == clock - rl.lastRequestTime
    IN  Max(spacingTarget - sinceLast, 0)

SpacingWait(rl, now, priority) ==
    LET spacingTarget == Max(rl.dynamicDelayMs, BaseForPriority(rl, priority))
        sinceLast     == now - rl.lastRequestTime
    IN  Max(spacingTarget - sinceLast, 0)

(***************************************************************************)
(* Inputs of the limiter.                                                  *)
(***************************************************************************)
\* Option objects (ms; 0 is an absent or zero option).
Options ==
    { [baseDelayMs |-> b, minDelayMs |-> mn, maxDelayMs |-> mx, maxRequestsPerMinute |-> r] :
        b \in {0, 500, 900}, mn \in {0, 850}, mx \in {0, 1000}, r \in {0, 1} }

\* What InstagramAPI's constructor passes.
InstagramOptions ==
    [baseDelayMs |-> 1500, minDelayMs |-> 800, maxDelayMs |-> 8000, maxRequestsPerMinute |-> 90]

Statuses == {200, 429, 500}
ResultCounts == {0, 2}
ResponseTimes == {500, 1000, 2500}
Priorities == {"high", "medium", "low", "none"}
\* Time that passes before a call reads Date.now().
ClockSteps == {Ms(1000), Ms(61000)}
\* How late a timer fires: sleep(ms) resumes ms + lag later.
SleepLags == {0, Ms(5)}

Idle == [pc |-> "idle", now |-> 0, priority |-> "none"]

NoVerdict == [pass |-> FALSE, reason |-> "not called"]

NoResponse == [seq |-> 0, status |-> 0, resultsCount |-> 0, responseTimeMs |-> 0]

\* Option objects for baseForPriority: bases below, at and above the floor,
\* within the offset of the cap and beyond it.
PriorityOptions ==
    { [baseDelayMs |-> b, minDelayMs |-> mn, maxDelayMs |-> mx, maxRequestsPerMinute |-> 0] :
        b \in {0, 500, 900, 1000, 1100, 1300, 7800}, mn \in {0, 850, 1000}, mx \in {0, 1000, 1200} }

NoBases == [high |-> 0, medium |-> 0, low |-> 0]

(***************************************************************************)
(* Actions of the limiter.                                                 *)
(***************************************************************************)
AfterResponse ==
    /\ br.pc \in {"idle", "returned"}
    /\ calls < MaxCalls
    /\ \E dt \in ClockSteps, status \in Statuses, resultsCount \in ResultCounts,
          responseTimeMs \in ResponseTimes :
          /\ clock' = clock + dt
          /\ rateLimiter' = AfterResponseResult(rateLimiter, clock', status,
                                                resultsCount, responseTimeMs)
          /\ lastResponse' = [seq |-> calls + 1, status |-> status,
                               resultsCount |-> resultsCount,
                               responseTimeMs |-> responseTimeMs]
    /\ calls' = calls + 1
    /\ br' = Idle
    /\ UNCHANGED <<bases, filterVars, runVars, dedupVars>>

\* beforeRequest(meta): entry, const now = Date.now().
BeforeRequest ==
    /\ br.pc \in {"idle", "returned"}
    /\ calls < MaxCalls
    /\ \E dt \in ClockSteps, priority \in Priorities :
          /\ clock' = clock + dt
          /\ br' = [pc |-> "entered", now |-> clock', priority |-> priority]
    /\ calls' = calls + 1
    /\ UNCHANGED <<rateLimiter, lastResponse, bases, filterVars, runVars, dedupVars>>

\* await sleep(this.cooldownUntil - now)
CooldownSleep ==
    /\ br.pc = "entered"
    /\ CooldownWait(rateLimiter, br.now) > 0
    /\ \E lag \in SleepLags :
          clock' = clock + CooldownWait(rateLimiter, br.now) + lag
    /\ br' = [br EXCEPT !.pc = "spacing"]
    /\ UNCHANGED <<rateLimiter, calls, lastResponse, bases, filterVars, runVars, dedupVars>>

\* The rest of beforeRequest: the spacing sleep and lastRequestTime = Date.now().
SpacingSleep ==
    /\ \/ br.pc = "spacing"
       \/ br.pc = "entered" /\ CooldownWait(rateLimiter, br.now) = 0
    /\ LET waitMs == SpacingWait(rateLimiter, br.now, br.priority) IN
       \E lag \in SleepLags :
          /\ clock' = IF waitMs > 0 THEN clock + waitMs + lag ELSE clock
          /\ rateLimiter' = [rateLimiter EXCEPT !.lastRequestTime = clock']
    /\ br' = [br EXCEPT !.pc = "returned"]
    /\ UNCHANGED <<calls, lastResponse, bases, filterVars, runVars, dedupVars>>

\* baseForPriority(priority) asked for each of the three priority labels.
AskBases ==
    /\ bases = NoBases
    /\ bases' = [ high   |-> BaseForPriority(rateLimiter, "high"),
                  medium |-> BaseForPriority(rateLimiter, "medium"),
                  low    |-> BaseForPriority(rateLimiter, "low") ]
    /\ UNCHANGED <<rateLimiter, clock, calls, br, lastResponse, filterVars, runVars, dedupVars>>

NextLimiter == AfterResponse

NextPriority == AskBases

NextPacing == AfterResponse \/ BeforeRequest \/ CooldownSleep \/ SpacingSleep



(***************************************************************************)
(* Strings are sequences of one-character strings.                         *)
(***************************************************************************)
UpperCase == <<"A", "B", "C", "D", "E", "F", "G", "H", "I", "J", "K", "L", "M",
               "N", "O", "P", "Q", "R", "S", "T", "U", "V", "W", "X", "Y", "Z">>

LowerCase == <<"a", "b", "c", "d", "e", "f", "g", "h", "i", "j", "k", "l", "m",
               "n", "o", "p", "q", "r", "s", "t", "u", "v", "w", "x", "y", "z">>

LowerChar(c) ==
    IF \E i \in DOMAIN UpperCase : UpperCase[i] = c
    THEN LowerCase[CHOOSE i \in DOMAIN UpperCase : UpperCase[i] = c]
    ELSE c

\* String.prototype.toLowerCase
ToLowerCase(s) == [i \in DOMAIN s |-> LowerChar(s[i])]

\* String.prototype.includes
Includes(s, k) ==
    \E i \in 0..(Len(s) - Len(k)) : SubSeq(s, i + 1, i + Len(k)) = k

\* String.prototype.trim
RECURSIVE TrimStart(_)
TrimStart(s) == IF s # <<>> /\ Head(s) = " " THEN TrimStart(Tail(s)) ELSE s

RECURSIVE TrimEnd(_)
TrimEnd(s) ==
    IF s # <<>> /\ s[Len(s)] = " " THEN TrimEnd(SubSeq(s, 1, Len(s) - 1)) ELSE s

Trim(s) == TrimEnd(TrimStart(s))

\* undefined where a string is expected: no string of characters equals it.
Absent == <<"undefined">>

\* A property that may be missing: <<>> when it is, <<value>> when it is there.
Missing == <<>>

Present(value) == <<value>>

(***************************************************************************)
(* filterProfile and extractTrainerInfo (src/lib/utils.js).                *)
(***************************************************************************)
\* a.concat(b): a non-array b (undefined) is appended as one element.
ConcatLists(a, b) == IF b = Missing THEN Append(a, Absent) ELSE a \o b[1]

\* list.some(keyword => bio.includes(keyword.toLowerCase())): "match", "none",
\* or "throws" when an undefined keyword is reached before a match.
RECURSIVE SomeKeyword(_, _)
SomeKeyword(list, bio) ==
    IF list = <<>> THEN "none"
    ELSE IF Head(list) = Absent THEN "throws"
    ELSE IF Includes(bio, ToLowerCase(Head(list))) THEN "match"
    ELSE SomeKeyword(Tail(list), bio)

\* keywords.english.concat(keywords.arabic).some(...); a missing english list
\* throws (undefined.concat).
HasKeyword(keywords, bio) ==
    IF keywords.english = Missing THEN "throws"
    ELSE SomeKeyword(ConcatLists(keywords.english[1], keywords.arabic), bio)

\* filterProfile(profile, bioKeywords, excludeKeywords); every throw is caught
\* and answered with pass: false.  A missing biography is read as '', so a
\* biography is always a string here.
FilterProfile(profile, bioKeywords, excludeKeywords) ==
    LET bio == ToLowerCase(profile.biography)
        hasBioKeyword == HasKeyword(bioKeywords, bio)
        hasExcludeKeyword == HasKeyword(excludeKeywords, bio)
    IN  IF profile.is_private THEN [pass |-> FALSE, reason |-> "Account is private"]
        ELSE IF hasBioKeyword = "throws" THEN [pass |-> FALSE, reason |-> "Filter error"]
        ELSE IF hasBioKeyword = "none"
             THEN [pass |-> FALSE, reason |-> "No trainer keyword in bio"]
        ELSE IF hasExcludeKeyword = "throws" THEN [pass |-> FALSE, reason |-> "Filter error"]
        ELSE IF hasExcludeKeyword = "match"
             THEN [pass |-> FALSE, reason |-> "Has exclude keyword (not a trainer)"]
        ELSE [pass |-> TRUE, reason |-> "All checks passed"]

(***************************************************************************)
(* Inputs of filterProfile: biographies and keywords over a small alphabet *)
(* with both cases of one letter, keyword sets with a language present,    *)
(* empty or missing.                                                       *)
(***************************************************************************)
MaxBioLen == 2

FilterChars == {"c", "C", "m"}

RECURSIVE StringsUpTo(_, _)
StringsUpTo(chars, n) ==
    IF n = 0 THEN {<<>>}
    ELSE LET shorter == StringsUpTo(chars, n - 1) IN
         shorter \cup {Append(s, c) : s \in shorter, c \in chars}

Biographies == StringsUpTo(FilterChars, MaxBioLen)

FilterKeywords == {<<"c">>, <<"C">>, <<"m">>, <<"m", "c">>}

KeywordLists == {Missing, Present(<<>>)} \cup {Present(<<k>>) : k \in FilterKeywords}

KeywordSets == [english : KeywordLists, arabic : {Missing, Present(<<>>), Present(<<<<"m">>>>)}]

FilterProfiles == [is_private : BOOLEAN, biography : Biographies]

ApplyFilter ==
    /\ filterVerdict = NoVerdict
    /\ filterVerdict' = FilterProfile(filterInput.profile, filterInput.bioKeywords,
                                      filterInput.excludeKeywords)
    /\ UNCHANGED <<filterInput, limiterVars, runVars, dedupVars>>

NextFilter == ApplyFilter


(***************************************************************************)
(* The priority-tiered PTFinder (src/unnamed/part_002) and the calls it    *)
(* makes on the adaptive InstagramAPI (src/lib/searcher.js).  The limiter  *)
(* only delays a request; what it does is in SpecLimiter and SpecPacing.   *)
(***************************************************************************)
\* Accepted records one run may collect.
MaxTrainers == 2

\* config.SEARCH.minFollowers
MinFollowers == 100

PrioritySeed ==
    << <<"a", "h", "m", "e", "d">>,
       <<"m", "o", "h", "a", "m", "e", "d">>,
       <<"m", "o", "h", "a", "m", "m", "e", "d">>,
       <<"o", "m", "a", "r">>,
       <<"a", "l", "i">>,
       <<"s", "a", "r", "a">>,
       <<"f", "a", "t", "m", "a">>,
       <<"m", "o", "n", "a">>,
       <<"n", "o", "u", "r">>,
       <<"m", "a", "r", "i", "a", "m">> >>

PriorityKeywords ==
    << <<"t", "r", "a", "i", "n", "e", "r">>,
       <<"c", "o", "a", "c", "h">>,
       <<"p", "e", "r", "s", "o", "n", "a", "l", " ", "t", "r", "a", "i", "n", "e", "r">>,
       <<"U+0645", "U+062F", "U+0631", "U+0628">>,
       <<"U+0643", "U+0648", "U+062A", "U+0634">> >>

ReducedKeywords ==
    << <<"t", "r", "a", "i", "n", "e", "r">>,
       <<"c", "o", "a", "c", "h">>,
       <<"U+0645", "U+062F", "U+0631", "U+0628">> >>

BroadKeywords ==
    << <<"p", "e", "r", "s", "o", "n", "a", "l", " ", "t", "r", "a", "i", "n", "e", "r">>,
       <<"f", "i", "t", "n", "e", "s", "s", " ", "c", "o", "a", "c", "h">>,
       <<"g", "y", "m", " ", "t", "r", "a", "i", "n", "e", "r">>,
       <<"U+0645", "U+062F", "U+0631", "U+0628", " ", "U+0634", "U+062E", "U+0635", "U+064A">>,
       <<"U+0645", "U+062F", "U+0631", "U+0628", " ", "U+0644", "U+064A", "U+0627", "U+0642", "U+0629">>,
       <<"U+0643", "U+0648", "U+062A", "U+0634", " ", "U+0641", "U+062A", "U+0646", "U+0633">> >>

\* buildSearchQuery(name, searchTerm)
BuildSearchQuery(name, searchTerm) == Trim(name) \o <<" ">> \o Trim(searchTerm)

\* `${name} + ${keyword}`
ComboLabel(name, keyword) == name \o <<" ", "+", " ">> \o keyword

NoKeywords ==
    [ bioFilterKeywords |-> [english |-> Missing, arabic |-> Missing],
      excludeKeywords   |-> [english |-> Missing, arabic |-> Missing] ]

\* new PTFinder()
NewFinder ==
    [ names          |-> <<>>,
      keywords       |-> NoKeywords,
      allTrainers    |-> <<>>,
      priorityNames  |-> <<>>,
      remainingNames |-> <<>>,
      seenUsernames  |-> {} ]

SeqToSet(list) == {list[i] : i \in DOMAIN list}

\* configureKeywordSets(): the two name lists (the keyword lists are the
\* literals PriorityKeywords, ReducedKeywords and BroadKeywords).
ConfigureKeywordSetsMutantKeepAll(f) ==
    LET available     == SeqToSet(f.names)
        priorityNames == SelectSeq(PrioritySeed, LAMBDA n : n \in available)
    IN  [f EXCEPT !.priorityNames  = priorityNames,
                  !.remainingNames = f.names]

ConfigureKeywordSets(f) ==
    LET available     == SeqToSet(f.names)
        priorityNames == SelectSeq(PrioritySeed, LAMBDA n : n \in available)
    IN  [f EXCEPT !.priorityNames  = priorityNames,
                  !.remainingNames =
                      SelectSeq(f.names, LAMBDA n : n \notin SeqToSet(priorityNames))]

\* [...namesData.maleNames, ...namesData.femaleNames].map(n => n.toLowerCase())
LoadedNames(namesData) ==
    LET all == namesData.maleNames \o namesData.femaleNames
    IN  [i \in DOMAIN all |-> ToLowerCase(all[i])]

\* initialize(): the finder it leaves and the value it returns.
InitializeMutantLenient(f, fs) ==
    LET named == IF fs.namesFile = Missing THEN f
                 ELSE [f EXCEPT !.names = LoadedNames(fs.namesFile[1])]
        keyed == IF fs.keywordsFile = Missing THEN named
                 ELSE [named EXCEPT !.keywords = fs.keywordsFile[1]]
    IN  [finder |-> ConfigureKeywordSets(keyed), ok |-> TRUE]

Initialize(f, fs) ==
    IF fs.namesFile = Missing THEN [finder |-> f, ok |-> FALSE]
    ELSE LET named == [f EXCEPT !.names = LoadedNames(fs.namesFile[1])] IN
         IF fs.keywordsFile = Missing THEN [finder |-> named, ok |-> FALSE]
         ELSE [ finder |-> ConfigureKeywordSets([named EXCEPT !.keywords = fs.keywordsFile[1]]),
                ok     |-> TRUE ]

\* The Terms of a phase, in the order its loops issue them.
PhaseNames(f, phase) == IF phase = 1 THEN f.priorityNames ELSE f.remainingNames

PhaseKeywords(phase) ==
    IF phase = 1 THEN PriorityKeywords
    ELSE IF phase = 2 THEN ReducedKeywords
    ELSE BroadKeywords

PhasePriority(phase) == IF phase = 1 THEN "high" ELSE IF phase = 2 THEN "medium" ELSE "low"

\* Phase 0 is the one searchAndProcess call of runAuthTest.
PhaseLength(f, phase) ==
    IF phase = 0 THEN 1
    ELSE IF phase = 3 THEN Len(BroadKeywords)
    ELSE Len(PhaseNames(f, phase)) * Len(PhaseKeywords(phase))

\* runAuthTest: finder.searchAndProcess('instagram', 'medium', 'auth-test')
AuthTestQuery == <<"i", "n", "s", "t", "a", "g", "r", "a", "m">>

AuthTestLabel == <<"a", "u", "t", "h", "-", "t", "e", "s", "t">>

\* The k-th searchAndProcess(query, priorityLabel, contextLabel) call of a phase.
TermAtMutantKeywordMajor(f, phase, k) ==
    LET keywords == PhaseKeywords(phase) IN
    IF phase = 0
    THEN [query |-> AuthTestQuery, priority |-> "medium", label |-> AuthTestLabel]
    ELSE IF phase = 3
    THEN [query |-> keywords[k], priority |-> "low", label |-> keywords[k]]
    ELSE LET names   == PhaseNames(f, phase)
             name    == names[((k - 1) % Len(names)) + 1]
             keyword == keywords[((k - 1) \div Len(names)) + 1]
         IN  [ query    |-> BuildSearchQuery(name, keyword),
               priority |-> PhasePriority(phase),
               label    |-> ComboLabel(name, keyword) ]

TermAt(f, phase, k) ==
    LET keywords == PhaseKeywords(phase) IN
    IF phase = 0
    THEN [query |-> AuthTestQuery, priority |-> "medium", label |-> AuthTestLabel]
    ELSE IF phase = 3
    THEN [query |-> keywords[k], priority |-> "low", label |-> keywords[k]]
    ELSE LET name    == PhaseNames(f, phase)[((k - 1) \div Len(keywords)) + 1]
             keyword == keywords[((k - 1) % Len(keywords)) + 1]
         IN  [ query    |-> BuildSearchQuery(name, keyword),
               priority |-> PhasePriority(phase),
               label    |-> ComboLabel(name, keyword) ]

\* The query text searchProfiles sends: query.toLowerCase().
SentQuery(f, phase, k) == ToLowerCase(TermAt(f, phase, k).query)

\* What searchProfiles does with the response to its request: whether it
\* returns, and the list it returns.
SearchProfilesMutantRetry(response) ==
    [ done  |-> response.kind # "rateLimited",
      users |-> IF response.kind = "ok" THEN response.users ELSE <<>> ]

SearchProfiles(response) ==
    [ done  |-> TRUE,
      users |-> IF response.kind = "ok" THEN response.users ELSE <<>> ]

\* What getProfile does with the response to its request: whether it returns,
\* and the profile (or null) it returns.
GetProfile(response) ==
    [ done    |-> TRUE,
      profile |-> IF response.kind = "ok"
                  THEN Present([ username         |-> response.user.username,
                                 biography        |-> response.user.biography,
                                 is_private       |-> response.user.is_private,
                                 edge_followed_by |-> response.user.followers ])
                  ELSE Missing ]

\* extractTrainerInfo(profile, searchKeyword), the fields the checks read.
ExtractTrainerInfo(profile) ==
    [ username  |-> IF profile.username = Absent THEN <<>> ELSE profile.username,
      followers |-> profile.edge_followed_by,
      isPrivate |-> IF profile.is_private THEN "Yes" ELSE "No",
      bio       |-> profile.biography ]

\* The body of the loop of searchAndProcess once getProfile has returned.
ProcessProfile(f, profile) ==
    IF profile = Missing THEN f
    ELSE IF ~FilterProfile(profile[1], f.keywords.bioFilterKeywords,
                           f.keywords.excludeKeywords).pass
    THEN f
    ELSE LET trainer == ExtractTrainerInfo(profile[1]) IN
         [f EXCEPT !.seenUsernames = @ \cup {ToLowerCase(trainer.username)},
                   !.allTrainers   = Append(@, trainer)]

\* runAllPhases: the phase that follows a pause.
PhaseAfterPauseMutantOrder(phase) == IF phase = 1 THEN 3 ELSE 2

PhaseAfterPause(phase) == phase + 1

PhaseName(phase) == IF phase = 0 THEN "authTest" ELSE <<"phase1", "phase2", "phase3">>[phase]

\* What searchAndProcess returns: it has no return statement.
SearchAndProcessReturn == Missing

\* runAuthTest: users && users.length > 0 decides what it returns.
RunAuthTestResult(users) ==
    IF users # Missing /\ Len(users[1]) > 0 THEN "true" ELSE "false"

\* Where runAllPhases stands once term k of a phase is done (k = 0: on entry).
GotoMutantNoReturn(f, phase, k) ==
    IF k < PhaseLength(f, phase)
    THEN [pc |-> "search", phase |-> phase, term |-> k + 1, users |-> <<>>, hit |-> 0,
          result |-> "none"]
    ELSE IF phase = 0
    THEN [pc |-> "returned", phase |-> phase, term |-> k, users |-> <<>>, hit |-> 0,
          result |-> RunAuthTestResult(SearchAndProcessReturn)]
    ELSE IF phase < 3
    THEN [pc |-> "pause", phase |-> phase, term |-> k, users |-> <<>>, hit |-> 0,
          result |-> "none"]
    ELSE [pc |-> "blocked", phase |-> phase, term |-> k, users |-> <<>>, hit |-> 0,
          result |-> "none"]

Goto(f, phase, k) ==
    IF k < PhaseLength(f, phase)
    THEN [pc |-> "search", phase |-> phase, term |-> k + 1, users |-> <<>>, hit |-> 0,
          result |-> "none"]
    ELSE IF phase = 0
    THEN [pc |-> "returned", phase |-> phase, term |-> k, users |-> <<>>, hit |-> 0,
          result |-> RunAuthTestResult(SearchAndProcessReturn)]
    ELSE IF phase < 3
    THEN [pc |-> "pause", phase |-> phase, term |-> k, users |-> <<>>, hit |-> 0,
          result |-> "none"]
    ELSE [pc |-> "returned", phase |-> phase, term |-> k, users |-> <<>>, hit |-> 0,
          result |-> "true"]

Failed(r) == [r EXCEPT !.pc = "returned", !.result = "false"]

\* An exception that leaves searchAndProcess: runAllPhases catches it and
\* returns false, runAuthTest lets it through.
Propagate(r) ==
    IF r.phase = 0 THEN [r EXCEPT !.pc = "returned", !.result = "throws"] ELSE Failed(r)

\* The log after a request of a phase, and after a move to position r.
LogRequest(log, phase) ==
    IF log # <<>> /\ log[Len(log)] = PhaseName(phase) THEN log
    ELSE Append(log, PhaseName(phase))

LogMove(log, r) == IF r.pc = "pause" THEN Append(log, "pause") ELSE log

(***************************************************************************)
(* Inputs of a run: the two files and the collaborators' answers.          *)
(***************************************************************************)
Ahmed == <<"A", "h", "m", "e", "d">>
Hany == <<"H", "a", "n", "y">>
HanyLower == <<"h", "a", "n", "y">>
Omar == <<"O", "m", "a", "r">>

NamesFiles ==
    { Missing,
      Present([maleNames |-> <<>>, femaleNames |-> <<>>]),
      Present([maleNames |-> <<Ahmed>>, femaleNames |-> <<Hany>>]),
      Present([maleNames |-> <<Omar, Ahmed>>, femaleNames |-> <<Hany>>]),
      Present([maleNames |-> <<Hany>>, femaleNames |-> <<HanyLower>>]) }

Coach == <<"c", "o", "a", "c", "h">>
Musician == <<"m", "u", "s", "i", "c", "i", "a", "n">>
Modarreb == <<"U+0645", "U+062F", "U+0631", "U+0628">>

KeywordsFiles ==
    { Missing,
      Present([ bioFilterKeywords |-> [english |-> Present(<<Coach>>),
                                       arabic  |-> Present(<<Modarreb>>)],
                excludeKeywords   |-> [english |-> Present(<<Musician>>),
                                       arabic  |-> Present(<<>>)] ]) }

\* Usernames of search hits; a hit may come without one.
RawUsernames == {<<"a">>, <<"A">>, Absent}

HitLists ==
    { <<>>, <<[username |-> <<"a">>]>>, <<[username |-> <<"A">>]>>,
      <<[username |-> <<"a">>], [username |-> <<"A">>]>>,
      <<[username |-> Absent]>> }

SearchResponses ==
    [kind : {"ok"}, users : HitLists]
    \cup [kind : {"rateLimited", "failed", "threw"}, users : {<<>>}]

Biographies2 ==
    { <<"C", "o", "a", "c", "h">>, <<"d", "j">>, Coach \o <<" ">> \o Musician }

ProfileUsers ==
    [ username : {<<"a">>, <<"b">>}, biography : Biographies2, is_private : BOOLEAN,
      followers : {50, 150} ]

NoUser == [username |-> <<>>, biography |-> <<>>, is_private |-> FALSE, followers |-> 0]

ProfileResponses ==
    [kind : {"ok"}, user : ProfileUsers]
    \cup [kind : {"rateLimited", "failed", "noData", "threw"}, user : {NoUser}]

Identities == {ToLowerCase(u) : u \in RawUsernames \ {Absent}}

NoCall == [call |-> "none", requests |-> 0, response |-> "none", termSearches |-> 0,
           returned |-> "none", found |-> 0]

NotStarted == [pc |-> "start", phase |-> 0, term |-> 0, users |-> <<>>, hit |-> 0,
               result |-> "none"]

(***************************************************************************)
(* Actions of a run.                                                       *)
(***************************************************************************)
\* runAllPhases up to the first request: initialize(), then the first phase.
StartRun ==
    /\ run.pc = "start"
    /\ LET init == Initialize(finder, files) IN
       /\ finder' = init.finder
       /\ run' = IF init.ok THEN Goto(init.finder, 1, 0) ELSE Failed(run)
    /\ phaseLog' = LogMove(phaseLog, run')
    /\ UNCHANGED <<files, api, fetchCount, sent, limiterVars, filterVars, dedupVars>>

\* runAuthTest up to its request: initialize(), then the auth-check search.
StartAuthTest ==
    /\ run.pc = "start"
    /\ LET init == Initialize(finder, files) IN
       /\ finder' = init.finder
       /\ run' = IF init.ok THEN Goto(init.finder, 0, 0) ELSE Failed(run)
    /\ UNCHANGED <<files, api, fetchCount, sent, phaseLog, limiterVars, filterVars, dedupVars>>

\* searchAndProcess: api.searchProfiles(query, priorityLabel), one request.
SearchRequest ==
    /\ run.pc = "search"
    /\ \E response \in SearchResponses :
          LET out == SearchProfiles(response) IN
          /\ api' = [api EXCEPT !.call = "search", !.requests = @ + 1,
                                !.response = response.kind,
                                !.termSearches = @ + 1,
                                !.returned = IF ~out.done THEN "none"
                                             ELSE IF out.users = <<>> THEN "empty list"
                                             ELSE "list",
                                !.found = Len(out.users)]
          /\ run' = IF out.done
                    THEN [run EXCEPT !.pc = "hits", !.users = out.users, !.hit = 1]
                    ELSE run
    /\ sent' = IF api.termSearches = 0
               THEN Append(sent, TermAt(finder, run.phase, run.term))
               ELSE sent
    /\ phaseLog' = LogRequest(phaseLog, run.phase)
    /\ UNCHANGED <<files, finder, fetchCount, limiterVars, filterVars, dedupVars>>

\* searchAndProcess: the head of the loop over users, up to the getProfile call.
NextHit ==
    /\ run.pc = "hits"
    /\ IF run.hit > Len(run.users)
       THEN /\ run' = Goto(finder, run.phase, run.term)
            /\ api' = IF run'.pc = "search" THEN NoCall ELSE api
            /\ UNCHANGED fetchCount
       ELSE LET username == run.users[run.hit].username IN
            IF username = Absent
            THEN /\ run' = Propagate(run)
                 /\ UNCHANGED <<api, fetchCount>>
            ELSE IF ToLowerCase(username) \in finder.seenUsernames
            THEN /\ run' = [run EXCEPT !.hit = @ + 1]
                 /\ UNCHANGED <<api, fetchCount>>
            ELSE /\ run' = [run EXCEPT !.pc = "profile"]
                 /\ api' = [api EXCEPT !.call = "profile", !.requests = 0,
                                       !.response = "none", !.returned = "none"]
                 /\ fetchCount' = [fetchCount EXCEPT ![ToLowerCase(username)] = Min(@ + 1, 2)]
    /\ phaseLog' = LogMove(phaseLog, run')
    /\ UNCHANGED <<files, finder, sent, limiterVars, filterVars, dedupVars>>

\* searchAndProcess: api.getProfile(user.username), one request, and the rest
\* of the loop body.
ProfileRequest ==
    /\ run.pc = "profile"
    /\ \E response \in ProfileResponses :
          LET out == GetProfile(response) IN
          /\ response.kind = "ok" => Len(finder.allTrainers) < MaxTrainers
          /\ api' = [api EXCEPT !.requests = @ + 1, !.response = response.kind,
                                !.returned = IF ~out.done THEN "none"
                                             ELSE IF out.profile = Missing THEN "null"
                                             ELSE "profile"]
          /\ finder' = IF out.done THEN ProcessProfile(finder, out.profile) ELSE finder
          /\ run' = IF out.done THEN [run EXCEPT !.pc = "hits", !.hit = @ + 1] ELSE run
    /\ phaseLog' = LogRequest(phaseLog, run.phase)
    /\ UNCHANGED <<files, fetchCount, sent, limiterVars, filterVars, dedupVars>>

\* runAllPhases: sleep(betweenPhases) is over, the next phase starts.
Resume ==
    /\ run.pc = "pause"
    /\ run' = Goto(finder, PhaseAfterPause(run.phase), 0)
    /\ api' = IF run'.pc = "search" THEN NoCall ELSE api
    /\ phaseLog' = LogMove(Append(phaseLog, "resume"), run')
    /\ UNCHANGED <<files, finder, fetchCount, sent, limiterVars, filterVars, dedupVars>>

NextRun == StartRun \/ SearchRequest \/ NextHit \/ ProfileRequest \/ Resume

NextAuth == StartAuthTest \/ SearchRequest \/ NextHit \/ ProfileRequest

(***************************************************************************)
(* The adaptive InstagramAPI and its limiter together: searchProfiles and  *)
(* getProfile pass beforeRequest, make their request and report the        *)
(* response to afterResponse.                                              *)
(***************************************************************************)
\* Requests one InstagramAPI makes.
MaxRequests == 3

\* The afterResponse call searchProfiles makes for a response: its status and
\* resultsCount, or none when the method leaves through its catch block (the
\* fetch or response.json() threw).
ReportOfSearch(response) ==
    IF response.kind = "threw" THEN Missing
    ELSE IF response.kind = "rateLimited"
         THEN Present([status |-> 429, resultsCount |-> 0])
    ELSE IF response.kind = "failed"
         THEN Present([status |-> 500, resultsCount |-> 0])
    ELSE Present([status |-> 200, resultsCount |-> Len(response.users)])

\* The afterResponse call getProfile makes for a response.
ReportOfProfileMutantCounted(response) ==
    IF response.kind = "threw" THEN Missing
    ELSE IF response.kind = "rateLimited"
         THEN Present([status |-> 429, resultsCount |-> 0])
    ELSE IF response.kind = "failed"
         THEN Present([status |-> 500, resultsCount |-> 1])
    ELSE Present([status |-> 200, resultsCount |-> 1])

ReportOfProfile(response) ==
    IF response.kind = "threw" THEN Missing
    ELSE IF response.kind = "rateLimited"
         THEN Present([status |-> 429, resultsCount |-> 0])
    ELSE IF response.kind = "failed"
         THEN Present([status |-> 500, resultsCount |-> 0])
    ELSE IF response.kind = "noData"
         THEN Present([status |-> 200, resultsCount |-> 0])
    ELSE Present([status |-> 200, resultsCount |-> 1])

\* The calls made on the API: searchProfiles(query) with its default
\* priority, and getProfile(username), which asks for 'high'.
ApiCalls == {[method |-> "search", priority |-> "medium"],
             [method |-> "profile", priority |-> "high"]}

\* Time between the end of one call and the next, and response times.
ApiIdleMs == Ms(1000)

ApiResponseTimes == {1000, 2500}

\* searchProfiles / getProfile up to the request: await beforeRequest(priority),
\* with timers that fire on time.
ApiRequest ==
    /\ br.pc = "idle"
    /\ calls < MaxRequests
    /\ \E call \in ApiCalls :
          LET now     == clock + ApiIdleMs
              resumed == now + CooldownWait(rateLimiter, now)
                             + SpacingWait(rateLimiter, now, call.priority)
          IN  /\ clock' = resumed
              /\ rateLimiter' = [rateLimiter EXCEPT !.lastRequestTime = resumed]
              /\ br' = [pc |-> "returned", now |-> now, priority |-> call.priority]
              /\ api' = [NoCall EXCEPT !.call = call.method]
    /\ calls' = calls + 1
    /\ UNCHANGED <<lastResponse, bases, files, finder, run, fetchCount, sent, phaseLog,
                   filterVars, dedupVars>>

\* The response arrives and the method returns: its afterResponse call, if
\* it makes one, and what it gives back.
ApiResponse ==
    /\ br.pc = "returned"
    /\ api.call # "none"
    /\ api.returned = "none"
    /\ \E response \in IF api.call = "search" THEN SearchResponses ELSE ProfileResponses,
          responseTimeMs \in ApiResponseTimes :
          LET report == IF api.call = "search" THEN ReportOfSearch(response)
                        ELSE ReportOfProfile(response)
              found  == IF api.call = "search"
                        THEN Len(SearchProfiles(response).users)
                        ELSE Len(GetProfile(response).profile)
          IN  /\ clock' = clock + Ms(responseTimeMs)
              /\ rateLimiter' =
                    IF report = Missing THEN rateLimiter
                    ELSE AfterResponseResult(rateLimiter, clock', report[1].status,
                                             report[1].resultsCount, responseTimeMs)
              /\ lastResponse' =
                    IF report = Missing THEN lastResponse
                    ELSE [seq |-> lastResponse.seq + 1, status |-> report[1].status,
                          resultsCount |-> report[1].resultsCount,
                          responseTimeMs |-> responseTimeMs]
              /\ api' = [api EXCEPT !.requests = 1, !.response = response.kind,
                                    !.found = found,
                                    !.returned = IF api.call = "profile"
                                                 THEN (IF found = 0 THEN "null" ELSE "profile")
                                                 ELSE (IF found = 0 THEN "empty list" ELSE "list")]
    /\ br' = Idle
    /\ UNCHANGED <<calls, bases, files, finder, run, fetchCount, sent, phaseLog,
                   filterVars, dedupVars>>

NextApi == ApiRequest \/ ApiResponse

(***************************************************************************)
(* The densest sequential use of the limiter: each beforeRequest is        *)
(* entered the instant the previous afterResponse has returned, with the   *)
(* priority of the smallest spacing target; any idle time, any other       *)
(* priority and any cooldown only move the requests further apart.         *)
(***************************************************************************)
\* Cycles of one dense run.
MaxCycles == 100

\* responseTime of every request of the dense run (ms).
DenseResponseMs == 500

\* One beforeRequest / request / afterResponse cycle.
DenseCycle ==
    /\ calls < MaxCycles
    /\ \E resultsCount \in ResultCounts :
          LET now       == clock
              requestAt == now + CooldownWait(rateLimiter, now)
                               + SpacingWait(rateLimiter, now, "high")
              requested == [rateLimiter EXCEPT !.lastRequestTime = requestAt]
              arrived   == requestAt + Ms(DenseResponseMs)
          IN  /\ clock' = arrived
              /\ rateLimiter' = AfterResponseResult(requested, arrived, 200, resultsCount,
                                                    DenseResponseMs)
              /\ lastResponse' = [seq |-> calls + 1, status |-> 200,
                                  resultsCount |-> resultsCount,
                                  responseTimeMs |-> DenseResponseMs]
    /\ calls' = calls + 1
    /\ UNCHANGED <<br, bases, filterVars, runVars, dedupVars>>

NextDense == DenseCycle

(***************************************************************************)
(* searchAndProcess replayed: the loop over one list of hits, run twice on *)
(* the same finder, getProfile giving the same answer to the same username.*)
(***************************************************************************)
\* for (const user of users) { ... } of searchAndProcess, getProfile(username)
\* being answered with answers[username].
RECURSIVE ProcessHits(_, _, _)
ProcessHits(f, users, answers) ==
    IF users = <<>> THEN f
    ELSE LET username == Head(users).username IN
         IF ToLowerCase(username) \in f.seenUsernames
         THEN ProcessHits(f, Tail(users), answers)
         ELSE ProcessHits(ProcessProfile(f, GetProfile(answers[username]).profile),
                          Tail(users), answers)

ReplayUsernames == RawUsernames \ {Absent}

ReplayHitLists == {users \in HitLists : \A i \in DOMAIN users : users[i].username # Absent}

ReplayFiles ==
    [ namesFile    : {Present([maleNames |-> <<>>, femaleNames |-> <<>>])},
      keywordsFile : KeywordsFiles \ {Missing} ]

NoReplay == [pc |-> "none", users |-> <<>>, answers |-> <<>>, once |-> <<>>]

\* initialize()
ReplayInitialize ==
    /\ replay.pc = "new"
    /\ finder' = Initialize(finder, files).finder
    /\ replay' = [replay EXCEPT !.pc = "ready"]
    /\ UNCHANGED <<files, run, api, fetchCount, sent, phaseLog, results,
                   limiterVars, filterVars>>

\* The loop of searchAndProcess over replay.users, the first and the second time.
ReplayHits ==
    /\ replay.pc \in {"ready", "once"}
    /\ finder' = ProcessHits(finder, replay.users, replay.answers)
    /\ replay' = IF replay.pc = "ready"
                 THEN [replay EXCEPT !.pc = "once", !.once = finder'.allTrainers]
                 ELSE [replay EXCEPT !.pc = "twice"]
    /\ UNCHANGED <<files, run, api, fetchCount, sent, phaseLog, results,
                   limiterVars, filterVars>>

NextReplay == ReplayInitialize \/ ReplayHits

(***************************************************************************)
(* deduplicateTrainers (src/lib/utils.js), as getResults applies it.       *)
(***************************************************************************)
\* Records a list given to deduplicateTrainers may hold.
MaxListLen == 3

\* trainer.username.toLowerCase()
DedupKeyMutantCaseSensitive(trainer) == trainer.username

DedupKey(trainer) == ToLowerCase(trainer.username)

\* The loop of deduplicateTrainers from a given seen set and unique list.
RECURSIVE DedupFrom(_, _, _)
DedupFrom(trainers, seen, unique) ==
    IF trainers = <<>> THEN unique
    ELSE IF DedupKey(Head(trainers)) \in seen
         THEN DedupFrom(Tail(trainers), seen, unique)
         ELSE DedupFrom(Tail(trainers), seen \cup {DedupKey(Head(trainers))},
                        Append(unique, Head(trainers)))

\* deduplicateTrainers(trainers)
DeduplicateTrainers(trainers) == DedupFrom(trainers, {}, <<>>)

\* Records as extractTrainerInfo builds them: the username is a string,
\* possibly empty; followers tells two records of one username apart.
TrainerRecords == [username : {<<"a">>, <<"A">>, <<"b">>, <<>>}, followers : {50, 150}]

RECURSIVE ListsUpTo(_, _)
ListsUpTo(records, n) ==
    IF n = 0 THEN {<<>>}
    ELSE LET shorter == ListsUpTo(records, n - 1) IN
         shorter \cup {Append(l, r) : l \in shorter, r \in records}

NoResults == [pc |-> "none", input |-> <<>>, output |-> <<>>, again |-> <<>>]

\* getResults(): deduplicateTrainers(this.allTrainers)
GetResults ==
    /\ results.pc = "new"
    /\ results' = [results EXCEPT !.pc = "once",
                                  !.output = DeduplicateTrainers(results.input)]
    /\ UNCHANGED <<replay, limiterVars, filterVars, runVars>>

\* deduplicateTrainers applied to its own output.
GetResultsAgain ==
    /\ results.pc = "once"
    /\ results' = [results EXCEPT !.pc = "twice",
                                  !.again = DeduplicateTrainers(results.output)]
    /\ UNCHANGED <<replay, limiterVars, filterVars, runVars>>

NextResults == GetResults \/ GetResultsAgain

(***************************************************************************)
(* Specifications.  Each one runs one component; the state of the others   *)
(* stays as it is after construction.                                      *)
(***************************************************************************)
vars == <<limiterVars, filterVars, runVars, dedupVars>>

\* The state after construction: new AdaptiveRateLimiter(options), no
\* filterProfile call made, new PTFinder() with runAllPhases not yet called.
InitLimiter ==
    /\ \E options \in Options \cup {InstagramOptions} : rateLimiter = NewLimiter(options)
    /\ clock = 0
    /\ calls = 0
    /\ br = Idle
    /\ lastResponse = NoResponse
    /\ bases = NoBases
    /\ filterInput = "none"
    /\ filterVerdict = NoVerdict
    /\ files = [namesFile |-> Missing, keywordsFile |-> Missing]
    /\ finder = NewFinder
    /\ run = NotStarted
    /\ api = NoCall
    /\ fetchCount = [id \in Identities |-> 0]
    /\ sent = <<>>
    /\ phaseLog = <<>>
    /\ replay = NoReplay
    /\ results = NoResults

InitPriority ==
    /\ \E options \in PriorityOptions \cup {InstagramOptions} :
          rateLimiter = NewLimiter(options)
    /\ clock = 0
    /\ calls = 0
    /\ br = Idle
    /\ lastResponse = NoResponse
    /\ bases = NoBases
    /\ filterInput = "none"
    /\ filterVerdict = NoVerdict
    /\ files = [namesFile |-> Missing, keywordsFile |-> Missing]
    /\ finder = NewFinder
    /\ run = NotStarted
    /\ api = NoCall
    /\ fetchCount = [id \in Identities |-> 0]
    /\ sent = <<>>
    /\ phaseLog = <<>>
    /\ replay = NoReplay
    /\ results = NoResults

InitPacing ==
    /\ rateLimiter = NewLimiter(InstagramOptions)
    /\ clock = 0
    /\ calls = 0
    /\ br = Idle
    /\ lastResponse = NoResponse
    /\ bases = NoBases
    /\ filterInput = "none"
    /\ filterVerdict = NoVerdict
    /\ files = [namesFile |-> Missing, keywordsFile |-> Missing]
    /\ finder = NewFinder
    /\ run = NotStarted
    /\ api = NoCall
    /\ fetchCount = [id \in Identities |-> 0]
    /\ sent = <<>>
    /\ phaseLog = <<>>
    /\ replay = NoReplay
    /\ results = NoResults

InitFilter ==
    /\ filterInput \in [profile : FilterProfiles, bioKeywords : KeywordSets,
                        excludeKeywords : KeywordSets]
    /\ filterVerdict = NoVerdict
    /\ rateLimiter = NewLimiter(InstagramOptions)
    /\ clock = 0
    /\ calls = 0
    /\ br = Idle
    /\ lastResponse = NoResponse
    /\ bases = NoBases
    /\ files = [namesFile |-> Missing, keywordsFile |-> Missing]
    /\ finder = NewFinder
    /\ run = NotStarted
    /\ api = NoCall
    /\ fetchCount = [id \in Identities |-> 0]
    /\ sent = <<>>
    /\ phaseLog = <<>>
    /\ replay = NoReplay
    /\ results = NoResults

InitRun ==
    /\ files \in [namesFile : NamesFiles, keywordsFile : KeywordsFiles]
    /\ finder = NewFinder
    /\ run = NotStarted
    /\ api = NoCall
    /\ fetchCount = [id \in Identities |-> 0]
    /\ sent = <<>>
    /\ phaseLog = <<>>
    /\ replay = NoReplay
    /\ results = NoResults
    /\ rateLimiter = NewLimiter(InstagramOptions)
    /\ clock = 0
    /\ calls = 0
    /\ br = Idle
    /\ lastResponse = NoResponse
    /\ bases = NoBases
    /\ filterInput = "none"
    /\ filterVerdict = NoVerdict

InitReplay ==
    /\ files \in ReplayFiles
    /\ \E users \in ReplayHitLists, answers \in [ReplayUsernames -> ProfileResponses] :
          replay = [pc |-> "new", users |-> users, answers |-> answers, once |-> <<>>]
    /\ results = NoResults
    /\ finder = NewFinder
    /\ run = NotStarted
    /\ api = NoCall
    /\ fetchCount = [id \in Identities |-> 0]
    /\ sent = <<>>
    /\ phaseLog = <<>>
    /\ rateLimiter = NewLimiter(InstagramOptions)
    /\ clock = 0
    /\ calls = 0
    /\ br = Idle
    /\ lastResponse = NoResponse
    /\ bases = NoBases
    /\ filterInput = "none"
    /\ filterVerdict = NoVerdict

InitResults ==
    /\ \E input \in ListsUpTo(TrainerRecords, MaxListLen) :
          results = [pc |-> "new", input |-> input, output |-> <<>>, again |-> <<>>]
    /\ replay = NoReplay
    /\ files = [namesFile |-> Missing, keywordsFile |-> Missing]
    /\ finder = NewFinder
    /\ run = NotStarted
    /\ api = NoCall
    /\ fetchCount = [id \in Identities |-> 0]
    /\ sent = <<>>
    /\ phaseLog = <<>>
    /\ rateLimiter = NewLimiter(InstagramOptions)
    /\ clock = 0
    /\ calls = 0
    /\ br = Idle
    /\ lastResponse = NoResponse
    /\ bases = NoBases
    /\ filterInput = "none"
    /\ filterVerdict = NoVerdict

SpecLimiter == InitLimiter /\ [][NextLimiter]_vars

SpecPriority == InitPriority /\ [][NextPriority]_vars

SpecPacing == InitPacing /\ [][NextPacing]_vars

SpecFilter == InitFilter /\ [][NextFilter]_vars

SpecRun == InitRun /\ [][NextRun]_vars

\* Every await of runAllPhases settles: the collaborators answer each request
\* and the timers fire, so a run that can take a step takes one.
SpecRunFair == InitRun /\ [][NextRun]_vars /\ WF_vars(NextRun)

SpecAuth == InitRun /\ [][NextAuth]_vars

SpecApi == InitPacing /\ [][NextApi]_vars

SpecDense == InitPacing /\ [][NextDense]_vars

SpecReplay == InitReplay /\ [][NextReplay]_vars

SpecResults == InitResults /\ [][NextResults]_vars

(***************************************************************************)
(* Claims about the limiter.                                               *)
(***************************************************************************)
ConfiguredInOrder ==
    /\ rateLimiter.minDelayMs <= rateLimiter.baseDelayMs
    /\ rateLimiter.baseDelayMs <= rateLimiter.maxDelayMs

\* C1: for a limiter configured with minDelayMs <= baseDelayMs <= maxDelayMs,
\* after construction and after every sequence of afterResponse calls,
\* minDelayMs <= dynamicDelayMs <= maxDelayMs.
C1_DelayWithinBounds ==
    ConfiguredInOrder =>
        /\ rateLimiter.minDelayMs <= rateLimiter.dynamicDelayMs
        /\ rateLimiter.dynamicDelayMs <= rateLimiter.maxDelayMs

\* A limiter with minDelayMs < baseDelayMs < maxDelayMs that has recorded a 429
\* (which raised its delay) and whose delay later responses brought down to
\* the floor, after at least three afterResponse calls.
C1_Witness ==
    /\ ConfiguredInOrder
    /\ rateLimiter.minDelayMs < rateLimiter.baseDelayMs
    /\ rateLimiter.baseDelayMs < rateLimiter.maxDelayMs
    /\ rateLimiter.cooldownUntil # 0
    /\ rateLimiter.dynamicDelayMs = rateLimiter.minDelayMs
    /\ calls >= 3

\* C2: a beforeRequest call entered during a cooldown (a 429 was recorded and
\* the time read on entry is before cooldownUntil) returns no earlier than
\* cooldownUntil, whatever its priority.
C2_CooldownDominance ==
    /\ (br.pc = "spacing" /\ br.now < rateLimiter.cooldownUntil)
          => clock >= rateLimiter.cooldownUntil
    /\ (br.pc = "returned" /\ br.now < rateLimiter.cooldownUntil)
          => rateLimiter.lastRequestTime >= rateLimiter.cooldownUntil

\* A high-priority beforeRequest that was entered during a cooldown has returned.
C2_Witness ==
    /\ br.pc = "returned"
    /\ br.priority = "high"
    /\ rateLimiter.cooldownUntil # 0
    /\ br.now < rateLimiter.cooldownUntil

\* C10: with maxDelayMs = 8000, backoffMs <= 4 * maxDelayMs from construction on.
C10_BackoffWithinCap ==
    rateLimiter.maxDelayMs = Ms(DefaultMaxDelayMs) =>
        rateLimiter.backoffMs <= BackoffCapFactor * rateLimiter.maxDelayMs

\* A step that is an afterResponse call, and one whose status is 429.
AfterResponseStep == lastResponse'.seq # lastResponse.seq

RateLimitedStep == AfterResponseStep /\ lastResponse'.status = RateLimitedStatus

\* C11: every afterResponse call with status 429 leaves backoffMs no smaller
\* than it was before the call (so that the cooldowns that successive 429s
\* impose, each as long as backoffMs was, never get shorter).
C11_BackoffGrows ==
    [][RateLimitedStep => rateLimiter'.backoffMs >= rateLimiter.backoffMs]_vars

\* C12: afterResponse with status 429 at time now sets cooldownUntil to now
\* plus the old backoffMs, dynamicDelayMs to min(1.5 * old + 200, maxDelayMs)
\* (not lower than before when old <= maxDelayMs), backoffMs to
\* min(1.5 * old, 4 * maxDelayMs), and leaves emptyStreak as it was, whatever
\* resultsCount and responseTimeMs are.  The halves are written doubled, so
\* that the equalities are exact.
C12_RateLimitedUpdate ==
    [][RateLimitedStep =>
          /\ rateLimiter'.cooldownUntil = clock' + rateLimiter.backoffMs
          /\ 2 * rateLimiter'.dynamicDelayMs
                = Min(3 * rateLimiter.dynamicDelayMs + 2 * Ms(200),
                      2 * rateLimiter.maxDelayMs)
          /\ rateLimiter.dynamicDelayMs <= rateLimiter.maxDelayMs
                => rateLimiter'.dynamicDelayMs >= rateLimiter.dynamicDelayMs
          /\ 2 * rateLimiter'.backoffMs
                = Min(3 * rateLimiter.backoffMs, 2 * 4 * rateLimiter.maxDelayMs)
          /\ rateLimiter'.emptyStreak = rateLimiter.emptyStreak]_vars

\* The latest call was an afterResponse with status 429, a non-zero
\* resultsCount and a fast response, made while emptyStreak was positive and
\* the delay below the cap, and after an earlier 429 (the backoff is below
\* its initial value only then).
C12_Witness ==
    /\ lastResponse.seq = calls
    /\ lastResponse.status = RateLimitedStatus
    /\ lastResponse.resultsCount > 0
    /\ lastResponse.responseTimeMs < FastResponseMs
    /\ rateLimiter.emptyStreak > 0
    /\ rateLimiter.dynamicDelayMs < rateLimiter.maxDelayMs
    /\ rateLimiter.cooldownUntil < clock + Ms(InitialBackoffMs)

\* C13: every afterResponse call with a status other than 429 and every step
\* of a beforeRequest call leaves cooldownUntil and backoffMs unchanged.
C13_OnlyRateLimitedCools ==
    [][~RateLimitedStep =>
          /\ rateLimiter'.cooldownUntil = rateLimiter.cooldownUntil
          /\ rateLimiter'.backoffMs = rateLimiter.backoffMs]_vars

\* After a 429, an afterResponse call with status 200 and results was made
\* and then a beforeRequest call returned.
C13_Witness ==
    /\ rateLimiter.cooldownUntil # 0
    /\ lastResponse.status = 200
    /\ lastResponse.resultsCount > 0
    /\ br.pc = "returned"

\* C14: for every limiter constructed with minDelayMs <= maxDelayMs,
\* baseForPriority('high') <= baseForPriority('medium') <= baseForPriority('low').
C14_PriorityOrdering ==
    (bases # NoBases /\ rateLimiter.minDelayMs <= rateLimiter.maxDelayMs) =>
        /\ bases.high <= bases.medium
        /\ bases.medium <= bases.low

\* C15: for every limiter constructed with minDelayMs <= baseDelayMs <=
\* maxDelayMs, baseForPriority('high') is max(baseDelayMs - 300, minDelayMs),
\* baseForPriority('low') is min(baseDelayMs + 300, maxDelayMs),
\* baseForPriority('medium') is baseDelayMs, and each lies in
\* [minDelayMs, maxDelayMs].
C15_PriorityBases ==
    (bases # NoBases /\ ConfiguredInOrder) =>
        /\ bases.high = Max(rateLimiter.baseDelayMs - Ms(300), rateLimiter.minDelayMs)
        /\ bases.low = Min(rateLimiter.baseDelayMs + Ms(300), rateLimiter.maxDelayMs)
        /\ bases.medium = rateLimiter.baseDelayMs
        /\ \A p \in {bases.high, bases.medium, bases.low} :
              rateLimiter.minDelayMs <= p /\ p <= rateLimiter.maxDelayMs

\* A step in which beforeRequest returns.
BeforeRequestReturns == br.pc # "returned" /\ br'.pc = "returned"

\* C24: when beforeRequest(priority) returns, at least
\* max(dynamicDelayMs, baseForPriority(priority)) ms, and so at least
\* minDelayMs, have passed since the previous lastRequestTime, and
\* lastRequestTime is the time of return.
C24_Spacing ==
    [][BeforeRequestReturns =>
          /\ clock' - rateLimiter.lastRequestTime
                >= Max(rateLimiter.dynamicDelayMs,
                       BaseForPriority(rateLimiter, br.priority))
          /\ clock' - rateLimiter.lastRequestTime >= rateLimiter.minDelayMs
          /\ rateLimiter'.lastRequestTime = clock']_vars

\* Four beforeRequest calls in a row have returned, the last one after a wait.
C24_Witness ==
    /\ br.pc = "returned"
    /\ calls = MaxCalls
    /\ lastResponse = NoResponse
    /\ rateLimiter.lastRequestTime > br.now

\* C30: a beforeRequest call entered at t0 during a cooldown returns after
\* (cooldownUntil - t0) + max(spacingTarget - (t0 - lastRequestTime), 0) ms,
\* the spacing target and the time since the last request being those at t0
\* (plus what the timers of its sleeps fire late).
C30_SpacingOnTopOfCooldown ==
    [][(BeforeRequestReturns /\ br.now < rateLimiter.cooldownUntil) =>
          LET target    == Max(rateLimiter.dynamicDelayMs,
                               BaseForPriority(rateLimiter, br.priority))
              remainder == Max(target - (br.now - rateLimiter.lastRequestTime), 0)
          IN  \E late \in {l1 + l2 : l1 \in SleepLags, l2 \in SleepLags} :
                 clock' - br.now = (rateLimiter.cooldownUntil - br.now) + remainder + late]_vars

\* A beforeRequest call entered during a cooldown has returned later than
\* the end of the cooldown plus any timer lateness: it slept a spacing
\* remainder after the cooldown.
C30_Witness ==
    /\ br.pc = "returned"
    /\ br.now < rateLimiter.cooldownUntil
    /\ rateLimiter.lastRequestTime > rateLimiter.cooldownUntil + 2 * Ms(5)

\* What afterResponse makes of dynamicDelayMs for a status other than 429,
\* written out step by step from the values before the call; window is the
\* number of timestamps of the last 60 seconds, the call's own included.
DelayAfter(rl, window, resultsCount, responseTimeMs) ==
    LET dense   == IF window > rl.maxRequestsPerMinute
                   THEN Min(rl.dynamicDelayMs + Ms(400), rl.maxDelayMs)
                   ELSE rl.dynamicDelayMs
        latency == IF responseTimeMs > 2000 THEN Min(dense + Ms(200), rl.maxDelayMs)
                   ELSE IF responseTimeMs < 800 THEN Max(dense - Ms(100), rl.minDelayMs)
                   ELSE dense
    IN  IF resultsCount > 0 THEN Max(latency - Ms(50), rl.minDelayMs)
        ELSE IF rl.emptyStreak + 1 >= 3 THEN Max(latency - Ms(150), rl.minDelayMs)
        ELSE latency

\* C26: emptyStreak counts the zero-result responses with a status other than
\* 429 since the last such response with results (it starts at 0, a 429 leaves
\* it alone, a zero-result response adds one, a response with results resets
\* it); the decrease of 150 is applied exactly when the streak after
\* incrementing is at least 3, and a response with results applies the
\* decrease of 50, both floored at minDelayMs.
C26_EmptyStreak ==
    [][AfterResponseStep =>
          IF lastResponse'.status = RateLimitedStatus
          THEN rateLimiter'.emptyStreak = rateLimiter.emptyStreak
          ELSE /\ rateLimiter'.emptyStreak =
                     IF lastResponse'.resultsCount = 0
                     THEN rateLimiter.emptyStreak + 1
                     ELSE 0
               /\ rateLimiter'.dynamicDelayMs =
                     DelayAfter(rateLimiter, Len(rateLimiter'.requestTimestamps),
                                lastResponse'.resultsCount,
                                lastResponse'.responseTimeMs)]_vars

\* Two empty responses, a 429 and a third empty response: the streak is 3.
C26_Witness ==
    /\ rateLimiter.emptyStreak = 3
    /\ rateLimiter.cooldownUntil # 0
    /\ lastResponse.status # RateLimitedStatus
    /\ lastResponse.resultsCount = 0

\* C27: an afterResponse call with a status other than 429 and a
\* responseTimeMs above 2000, made when dynamicDelayMs is within
\* [minDelayMs, maxDelayMs], does not lower dynamicDelayMs.
C27_SlowRaisesDelay ==
    [][(/\ AfterResponseStep
        /\ lastResponse'.status # RateLimitedStatus
        /\ lastResponse'.responseTimeMs > SlowResponseMs
        /\ rateLimiter.minDelayMs <= rateLimiter.dynamicDelayMs
        /\ rateLimiter.dynamicDelayMs <= rateLimiter.maxDelayMs)
          => rateLimiter'.dynamicDelayMs >= rateLimiter.dynamicDelayMs]_vars

\* A step in which searchProfiles or getProfile returns.
ApiReturns == api.returned = "none" /\ api'.returned # "none"

\* C25: every request that has passed beforeRequest is followed by exactly one
\* afterResponse call before the method returns (and so before the next
\* beforeRequest), whatever the outcome of the request.
C25_FeedbackPairing ==
    [][ApiReturns => lastResponse'.seq = lastResponse.seq + 1]_vars

\* C28: a response with a non-OK status other than 429, and a profile
\* response without user data, is reported to afterResponse with resultsCount
\* 0 and adds one to emptyStreak; from the third in a row on, each one with
\* responseTimeMs <= 2000 lowers dynamicDelayMs by at least 150, down to
\* minDelayMs at most.
C28_FailuresSpeedUp ==
    [][(ApiReturns /\ api'.response \in {"failed", "noData"}) =>
          /\ lastResponse'.seq = lastResponse.seq + 1
          /\ lastResponse'.resultsCount = 0
          /\ rateLimiter'.emptyStreak = rateLimiter.emptyStreak + 1
          /\ (rateLimiter.emptyStreak >= 2 /\ lastResponse'.responseTimeMs <= 2000) =>
                rateLimiter'.dynamicDelayMs
                    <= Max(rateLimiter.dynamicDelayMs - Ms(150), rateLimiter.minDelayMs)]_vars

\* Three failing requests in a row, the last one a profile without user
\* data, have brought the delay below the base delay.
C28_Witness ==
    /\ api.call = "profile"
    /\ api.response = "noData"
    /\ rateLimiter.emptyStreak = 3
    /\ rateLimiter.dynamicDelayMs < rateLimiter.baseDelayMs

\* C29: with InstagramAPI's configuration and strictly sequential
\* beforeRequest / request / afterResponse cycles the 60-second window never
\* holds more than maxRequestsPerMinute timestamps, so the density check of
\* afterResponse never raises the delay.
C29_DensityNeverReached ==
    /\ Len(rateLimiter.requestTimestamps) <= rateLimiter.maxRequestsPerMinute
    /\ AfterDensity(rateLimiter) = rateLimiter

\* The window is sliding: more than a minute of back-to-back cycles has
\* passed, older timestamps have been dropped and the delay is at its floor.
C29_Witness ==
    /\ clock > Ms(WindowMs)
    /\ Len(rateLimiter.requestTimestamps) < calls
    /\ Len(rateLimiter.requestTimestamps) >= 50
    /\ rateLimiter.dynamicDelayMs = rateLimiter.minDelayMs

(***************************************************************************)
(* Claims about the filter.                                                *)
(***************************************************************************)
\* The keywords of a set: the union of its languages, a missing one being empty.
ListOrEmpty(list) == IF list = Missing THEN <<>> ELSE list[1]

KeywordUnion(keywords) ==
    {ListOrEmpty(keywords.english)[i] : i \in DOMAIN ListOrEmpty(keywords.english)}
    \cup {ListOrEmpty(keywords.arabic)[i] : i \in DOMAIN ListOrEmpty(keywords.arabic)}

BioMatches(profile, keywords) ==
    LET bio == ToLowerCase(profile.biography)
    IN  \E k \in KeywordUnion(keywords) : Includes(bio, ToLowerCase(k))

\* C7: filterProfile passes exactly when the profile is public, its biography
\* contains (case-insensitively) a keyword of the union of the include sets and
\* none of the union of the exclude sets.
C7_FilterExact ==
    filterVerdict # NoVerdict =>
        (filterVerdict.pass <=>
            /\ ~filterInput.profile.is_private
            /\ BioMatches(filterInput.profile, filterInput.bioKeywords)
            /\ ~BioMatches(filterInput.profile, filterInput.excludeKeywords))

(***************************************************************************)
(* Claims about a run.                                                     *)
(***************************************************************************)
\* C3: no two records of allTrainers have the same case-folded username,
\* whatever the search and profile collaborators answer.
C3_UniqueUsernames ==
    \A i, j \in DOMAIN finder.allTrainers :
        i # j => ToLowerCase(finder.allTrainers[i].username)
                     # ToLowerCase(finder.allTrainers[j].username)

\* C4: within one run getProfile is called at most once for a case-folded
\* username.
C4_ProfileFetchedOnce == \A id \in Identities : fetchCount[id] <= 1

\* The query texts of the search requests issued so far, in order: every Term
\* of the phases before the current one, and of the current phase up to the
\* current Term (the current one included once its request is made).
IssuedInPhase(phase) ==
    IF run.pc = "start" \/ phase > run.phase THEN 0
    ELSE IF phase < run.phase THEN PhaseLength(finder, phase)
    ELSE IF run.pc = "search" THEN run.term - 1
    ELSE run.term

IssuedQueries ==
    LET queries(phase) == [k \in 1..IssuedInPhase(phase) |-> SentQuery(finder, phase, k)]
    IN  queries(1) \o queries(2) \o queries(3)

\* C5: no two search requests of a run carry the same query text.
C5_TermIssuedOnce ==
    \A i, j \in DOMAIN IssuedQueries : i # j => IssuedQueries[i] # IssuedQueries[j]

PausesBefore(log, i) == Cardinality({j \in 1..(i - 1) : log[j] = "pause"})

\* C6: the requests of the priority phase come before any pause, those of the
\* remaining phase after exactly one pause and those of the broad phase after
\* exactly two; a pause that has begun is followed by nothing but its end; a
\* run that returns true has paused exactly twice.
C6_PhaseOrdering ==
    /\ \A i \in DOMAIN phaseLog :
          /\ \A phase \in 1..3 :
                phaseLog[i] = PhaseName(phase) => PausesBefore(phaseLog, i) = phase - 1
          /\ (phaseLog[i] = "pause" /\ i < Len(phaseLog)) => phaseLog[i + 1] = "resume"
    /\ run.pc = "pause" => phaseLog[Len(phaseLog)] = "pause"
    /\ run.result = "true" => PausesBefore(phaseLog, Len(phaseLog) + 1) = 2

\* A run over names of both kinds has returned true after requests in all
\* three phases.
C6_Witness ==
    /\ run.result = "true"
    /\ phaseLog = <<"phase1", "pause", "resume", "phase2", "pause", "resume", "phase3">>
    /\ Len(finder.allTrainers) > 0

\* C8: every record of allTrainers has at least MinFollowers followers.
C8_FollowerFloor ==
    \A i \in DOMAIN finder.allTrainers : finder.allTrainers[i].followers >= MinFollowers

\* C9: searchProfiles and getProfile return after exactly one request; a 429
\* makes them return an empty list and null; every Term that has searched has
\* made exactly one search request.
C9_NoRetry ==
    /\ run.pc = "search" => api.termSearches = 0
    /\ run.pc \in {"hits", "profile"} => api.termSearches = 1
    /\ api.returned # "none" => api.requests = 1
    /\ (api.call = "search" /\ api.response = "rateLimited") => api.returned = "empty list"
    /\ (api.call = "profile" /\ api.response = "rateLimited") => api.returned = "null"
    /\ (run.pc = "hits" /\ api.returned = "empty list") => run.users = <<>>

\* A profile fetch of the remaining phase was answered with 429 and the loop
\* has moved to the next hit with nothing accepted.
C9_Witness ==
    /\ run.phase = 2
    /\ run.pc = "hits"
    /\ run.hit = 2
    /\ api.call = "profile"
    /\ api.response = "rateLimited"
    /\ api.returned = "null"
    /\ finder.allTrainers = <<>>

InitFails == files.namesFile = Missing \/ files.keywordsFile = Missing

\* C16: when loading the names file or the keywords file fails, runAllPhases
\* returns false with no search or profile request issued (no API method was
\* called, so the limiter is as constructed) and allTrainers empty.
C16_FatalInitFailure ==
    (InitFails /\ run.pc # "start") =>
        /\ run.pc = "returned"
        /\ run.result = "false"
        /\ sent = <<>>
        /\ phaseLog = <<>>
        /\ api = NoCall
        /\ \A id \in Identities : fetchCount[id] = 0
        /\ rateLimiter = NewLimiter(InstagramOptions)
        /\ finder.allTrainers = <<>>

\* The names file loaded, the keywords file did not, and runAllPhases has
\* returned.
C16_Witness ==
    /\ files.namesFile # Missing
    /\ files.keywordsFile = Missing
    /\ finder.names # <<>>
    /\ run.pc = "returned"

\* A step in which a request was answered, and one answered with an error.
RequestStep == api'.requests = api.requests + 1

ItemError == api'.response \in {"rateLimited", "failed", "threw", "noData"}

\* C17: a failing search or profile fetch adds no record, leaves the records
\* accepted earlier as they are and lets the loop go on with the next hit or
\* Term; once initialization has succeeded, nothing that comes back from a
\* search or a profile fetch makes runAllPhases return false.
C17_ItemErrorsRecovered ==
    [][/\ (RequestStep /\ ItemError) =>
             /\ finder'.allTrainers = finder.allTrainers
             /\ run'.pc = "hits"
       /\ run.pc # "start" => run'.result # "false"]_vars

\* C18: runAuthTest returns true when the auth-check search returned at least
\* one result and false when it returned none (runs in which an exception
\* leaves runAuthTest are left aside).
C18_AuthTestResult ==
    (run.phase = 0 /\ run.pc = "returned" /\ run.term = 1
        /\ run.result \in {"true", "false"}) =>
        /\ api.found > 0 => run.result = "true"
        /\ api.found = 0 => run.result = "false"

\* The searchAndProcess calls of names x keywords in name-major order.
TermRow(name, keywords, priority) ==
    [ j \in DOMAIN keywords |->
        [ query    |-> name \o <<" ">> \o keywords[j],
          priority |-> priority,
          label    |-> name \o <<" ", "+", " ">> \o keywords[j] ] ]

RECURSIVE TermProduct(_, _, _)
TermProduct(names, keywords, priority) ==
    IF names = <<>> THEN <<>>
    ELSE TermRow(Head(names), keywords, priority)
             \o TermProduct(Tail(names), keywords, priority)

PriorityTerms == TermProduct(finder.priorityNames, PriorityKeywords, "high")

RemainingTerms == TermProduct(finder.remainingNames, ReducedKeywords, "medium")

BroadTerms ==
    [ j \in DOMAIN BroadKeywords |->
        [query |-> BroadKeywords[j], priority |-> "low", label |-> BroadKeywords[j]] ]

PlannedTerms == PriorityTerms \o RemainingTerms \o BroadTerms

CorpusNames ==
    IF files.namesFile = Missing THEN {}
    ELSE {ToLowerCase(n) : n \in SeqToSet(files.namesFile[1].maleNames)
                                   \cup SeqToSet(files.namesFile[1].femaleNames)}

\* C20: once configureKeywordSets has run, priorityNames holds exactly the
\* seed names that are in the corpus, remainingNames the corpus names that are
\* not in priorityNames; the two are disjoint and together make the corpus.
C20_NamePartition ==
    (~InitFails /\ run.pc # "start") =>
        LET priority  == SeqToSet(finder.priorityNames)
            remaining == SeqToSet(finder.remainingNames)
        IN  /\ priority = CorpusNames \cap SeqToSet(PrioritySeed)
            /\ remaining = CorpusNames \ priority
            /\ priority \cap remaining = {}
            /\ priority \cup remaining = CorpusNames

\* A corpus with seed names and another name has been split; most seed names
\* are not in it.
C20_Witness ==
    /\ run.pc = "search"
    /\ Len(finder.priorityNames) = 2
    /\ finder.remainingNames = <<HanyLower>>

(***************************************************************************)
(* Claims about deduplication.                                             *)
(***************************************************************************)
\* C21: a hit whose case-folded username is in seenUsernames leaves
\* allTrainers and seenUsernames as they are, and processing one list of hits
\* twice, with getProfile answering alike both times, leaves the accepted
\* records (and their number) as they were after the first time.
C21_DedupIdempotent ==
    /\ replay.pc \in {"ready", "once", "twice"} =>
          \A u \in ReplayUsernames :
              ToLowerCase(u) \in finder.seenUsernames =>
                  ProcessHits(finder, <<[username |-> u]>>, replay.answers) = finder
    /\ replay.pc = "twice" =>
          /\ Len(finder.allTrainers) = Len(replay.once)
          /\ finder.allTrainers = replay.once

\* The positions of a list that hold the first record of their case-folded
\* username, and the records at those positions, in order.
FirstPositions(list) ==
    {i \in DOMAIN list :
        \A j \in 1..(i - 1) : ToLowerCase(list[j].username) # ToLowerCase(list[i].username)}

FirstOccurrences(list) ==
    [ k \in 1..Cardinality(FirstPositions(list)) |->
        list[CHOOSE i \in FirstPositions(list) :
                 Cardinality({j \in FirstPositions(list) : j <= i}) = k] ]

\* C22: the list deduplicateTrainers returns has no two records with the same
\* case-folded username, is the list of the first occurrences of each key in
\* the original order, and is returned unchanged when given back to it.
C22_FinalDedup ==
    /\ results.pc \in {"once", "twice"} =>
          /\ \A i, j \in DOMAIN results.output :
                i # j => ToLowerCase(results.output[i].username)
                            # ToLowerCase(results.output[j].username)
          /\ results.output = FirstOccurrences(results.input)
    /\ results.pc = "twice" => results.again = results.output

\* A list a, b, A (two records of one key, apart and in different case) has
\* been deduplicated twice.
C22_Witness ==
    /\ results.pc = "twice"
    /\ Len(results.input) = 3
    /\ results.input[1].username = <<"a">>
    /\ results.input[2].username = <<"b">>
    /\ results.input[3].username = <<"A">>
    /\ Len(results.output) = 2

\* C23: runAllPhases eventually returns, whatever the collaborators answer.
C23_Termination == <>(run.pc = "returned")

\* A run over all three phases has returned true although its last request
\* was answered with 429.
C23_Witness ==
    /\ run.pc = "returned"
    /\ run.result = "true"
    /\ run.phase = 3
    /\ api.response = "rateLimited"
    /\ finder.remainingNames # <<>>

====
